---- MODULE Spec2Model ----
(***************************************************************************)
(* Model of source/market_maker/market_maker.cpp.                          *)
(*                                                                         *)
(* The translation unit defines two member functions of                    *)
(* market_maker::MarketMaker, start() and stop().  Neither reads nor       *)
(* writes a member of the object; each inserts one string literal into     *)
(* std::cout followed by std::endl (a newline and a flush) and returns.    *)
(* The only state the program can observe or change is therefore the       *)
(* standard output stream.                                                 *)
(***************************************************************************)
EXTENDS Naturals, Sequences, FiniteSets

\* Longest sequence of calls explored.
MaxCalls == 6

\* The member functions a caller may invoke (market_maker.cpp:6, :10).
Methods == {"start", "stop"}

\* String literal of market_maker.cpp:7.
StartLine == "Market maker starting..."

StopLineSameAsStart == "Market maker starting..."

\* String literal of market_maker.cpp:11.
StopLine == "Market maker stopping..."

\* std::cout: the lines written so far, in order
VARIABLE cout
\* number of lines of cout already flushed by std::endl
VARIABLE flushed
\* the calls the caller has made so far, in order
VARIABLE calls

vars == <<cout, flushed, calls>>

TypeOK ==
    /\ cout \in Seq({StartLine, StopLine})
    /\ flushed \in 0..Len(cout)
    /\ calls \in Seq(Methods)

\* State of the process before any member function has been called.
Init ==
    /\ cout = <<>>
    /\ flushed = 0
    /\ calls = <<>>

\* operator<<(std::cout, text) << std::endl : append the line, then flush.
WriteLine(text) ==
    /\ cout' = Append(cout, text)
    /\ flushed' = Len(cout) + 1

\* void MarketMaker::start()
start ==
    /\ Len(calls) < MaxCalls
    /\ WriteLine(StartLine)
    /\ calls' = Append(calls, "start")

\* void MarketMaker::stop()
stop ==
    /\ Len(calls) < MaxCalls
    /\ WriteLine(StopLine)
    /\ calls' = Append(calls, "stop")

Next == start \/ stop

Spec == Init /\ [][Next]_vars

----------------------------------------------------------------------------

\* The line the source text prescribes for a call of the given method.
ExpectedLine(m) ==
    IF m = "start" THEN "Market maker starting..." ELSE "Market maker stopping..."

\* C10: start and stop have no lifecycle guard (after any sequence of calls,
\* in any order, both are still callable), and each call's only effect is
\* one line on standard output, 'Market maker starting...' for start and
\* 'Market maker stopping...' for stop, flushed at once: the output is
\* exactly the sequence of calls, line for line.
OutputIsCallSequence ==
    /\ Len(cout) = Len(calls)
    /\ \A i \in 1..Len(calls) : cout[i] = ExpectedLine(calls[i])
    /\ flushed = Len(cout)
    /\ Len(calls) < MaxCalls => (ENABLED start) /\ (ENABLED stop)

\* Witness for C10: stop was called before any start, start twice in a row
\* and stop twice in a row, and every call produced its line.
StopFirstAndRepeatsSeen ==
    /\ Len(calls) >= 5
    /\ calls[1] = "stop"
    /\ \E i \in 1..(Len(calls) - 1) : calls[i] = "start" /\ calls[i + 1] = "start"
    /\ \E i \in 1..(Len(calls) - 1) : calls[i] = "stop" /\ calls[i + 1] = "stop"
    /\ Len(cout) = Len(calls)

====
